---------------------------- MODULE Spec2Model ----------------------------
(***************************************************************************)
(* Model of bot.py: a Flask webhook handler (github_webhook) that awards   *)
(* points for merged pull requests into a SQLite table through one shared  *)
(* connection and cursor, and a Discord command (show_leaderboard) that    *)
(* reads the same table through the same cursor.                           *)
(*                                                                         *)
(* Text is modelled as sequences of one-character strings, so that         *)
(* str.lower() and the regular expression act on characters.               *)
(***************************************************************************)
EXTENDS Integers, Sequences, FiniteSets, TLC

(***************************************************************************)
(* Bounds of the model.                                                    *)
(***************************************************************************)
NumThreads == 2          \* concurrent Flask request threads
MaxDeliveries == 2       \* webhook deliveries received in one run
MaxQueries == 1          \* !leaderboard commands issued in one run
MaxStored == 2           \* highest points of a ledger given to update_score alone
MaxDelta == 3            \* highest delta given to update_score alone
MaxRows == 12            \* most rows of a ledger given to the leaderboard query alone
MaxStride == 3           \* number of point patterns of those ledgers

Threads == 1..NumThreads

(***************************************************************************)
(* Values that stand for Python's None and for an absent dictionary key.   *)
(***************************************************************************)
None == "None"
Missing == "Missing"

(***************************************************************************)
(* Characters.                                                             *)
(***************************************************************************)
UpperCase == <<"A","B","C","D","E","F","G","H","I","J","K","L","M",
               "N","O","P","Q","R","S","T","U","V","W","X","Y","Z">>
LowerCase == <<"a","b","c","d","e","f","g","h","i","j","k","l","m",
               "n","o","p","q","r","s","t","u","v","w","x","y","z">>
Digits == <<"0","1","2","3","4","5","6","7","8","9">>

\* one character of str.lower()
LowerChar(c) ==
    IF \E i \in 1..26 : UpperCase[i] = c
    THEN LowerCase[CHOOSE i \in 1..26 : UpperCase[i] = c]
    ELSE c

\* str.lower()
Lower(s) == [i \in 1..Len(s) |-> LowerChar(s[i])]

\* the regular expression's \s
IsSpace(c) == c \in {" ", "\t", "\n", "\r", "\f"}

\* the regular expression's \d
IsDigit(c) == \E i \in 1..10 : Digits[i] = c

DigitValue(c) == (CHOOSE i \in 1..10 : Digits[i] = c) - 1

\* int() of a string of decimal digits
RECURSIVE ParseInt(_)
ParseInt(s) ==
    IF Len(s) = 0 THEN 0
    ELSE 10 * ParseInt(SubSeq(s, 1, Len(s) - 1)) + DigitValue(s[Len(s)])

(***************************************************************************)
(* The pattern of re.search in github_webhook:                             *)
(*   (?:close|closes|closed|fix|fixes|fixed|resolve|resolves|resolved)     *)
(*   \s#(\d+)          with re.IGNORECASE                                  *)
(***************************************************************************)
Keywords ==
    << <<"c","l","o","s","e">>,
       <<"c","l","o","s","e","s">>,
       <<"c","l","o","s","e","d">>,
       <<"f","i","x">>,
       <<"f","i","x","e","s">>,
       <<"f","i","x","e","d">>,
       <<"r","e","s","o","l","v","e">>,
       <<"r","e","s","o","l","v","e","s">>,
       <<"r","e","s","o","l","v","e","d">>  >>

\* the literal kw matches s at position i, ignoring case
LiteralAt(s, i, kw) ==
    /\ i + Len(kw) - 1 <= Len(s)
    /\ \A j \in 1..Len(kw) : LowerChar(s[i + j - 1]) = kw[j]

\* end of the greedy \d+ that starts at position i (i - 1 when no digit)
RECURSIVE DigitsEnd(_, _)
DigitsEnd(s, i) ==
    IF i <= Len(s) /\ IsDigit(s[i]) THEN DigitsEnd(s, i + 1) ELSE i - 1

\* TailAt with \d* in place of \d+, as a test of the properties
TailAtNoDigit(s, i) ==
    /\ i + 1 <= Len(s)
    /\ IsSpace(s[i])
    /\ s[i + 1] = "#"

\* the rest of the pattern, \s#(\d+), matches s at position i
TailAt(s, i) ==
    /\ i + 2 <= Len(s)
    /\ IsSpace(s[i])
    /\ s[i + 1] = "#"
    /\ IsDigit(s[i + 2])

\* the alternatives are tried in order at position i, and the first one
\* after which the rest of the pattern matches is taken; 0 when none
AlternativeAt(s, i) ==
    LET ok == {k \in 1..Len(Keywords) :
                  LiteralAt(s, i, Keywords[k]) /\ TailAt(s, i + Len(Keywords[k]))}
    IN  IF ok = {} THEN 0 ELSE CHOOSE k \in ok : \A m \in ok : k <= m

\* ReSearch taking the rightmost position where the pattern matches, as a
\* test of the properties
ReSearchLast(s) ==
    LET hits == {i \in 1..Len(s) : AlternativeAt(s, i) # 0}
    IN  IF hits = {} THEN [found |-> FALSE, start |-> 0, group1 |-> <<>>]
        ELSE LET i == CHOOSE h \in hits : \A m \in hits : h >= m
                 d == i + Len(Keywords[AlternativeAt(s, i)]) + 2
             IN  [found |-> TRUE, start |-> i,
                  group1 |-> SubSeq(s, d, DigitsEnd(s, d))]

\* re.search(...): the leftmost position where the pattern matches, and
\* group(1) there; found is FALSE when the pattern matches nowhere (None)
ReSearch(s) ==
    LET hits == {i \in 1..Len(s) : AlternativeAt(s, i) # 0}
    IN  IF hits = {} THEN [found |-> FALSE, start |-> 0, group1 |-> <<>>]
        ELSE LET i == CHOOSE h \in hits : \A m \in hits : h <= m
                 d == i + Len(Keywords[AlternativeAt(s, i)]) + 2
             IN  [found |-> TRUE, start |-> i,
                  group1 |-> SubSeq(s, d, DigitsEnd(s, d))]

(***************************************************************************)
(* get_points_from_pr_labels, lines 76-85: the label policy applied to the *)
(* label names of the fetched issue.                                       *)
(***************************************************************************)
\* PointsFor with if in place of elif and a running total, as a test of the
\* properties
PointsForSum(names) ==
    LET labels == {Lower(n) : n \in names}
    IN  (IF <<"h","a","r","d">> \in labels THEN 20 ELSE 0)
        + (IF <<"m","e","d","i","u","m">> \in labels THEN 10 ELSE 0)
        + (IF <<"e","a","s","y">> \in labels THEN 5 ELSE 0)

PointsFor(names) ==
    LET labels == {Lower(n) : n \in names}
    IN  IF <<"h","a","r","d">> \in labels THEN 20
        ELSE IF <<"m","e","d","i","u","m">> \in labels THEN 10
        ELSE IF <<"e","a","s","y">> \in labels THEN 5
        ELSE 0


(***************************************************************************)
(* The code-hosting service: the issues of GITHUB_REPO and the names of    *)
(* their labels. An issue outside the domain does not exist (404).         *)
(***************************************************************************)
IssueStore ==
    [k \in {1, 2, 3, 9} |->
        CASE k = 1 -> {<<"H","a","r","d">>, <<"e","a","s","y">>}
          [] k = 2 -> {<<"E","A","S","Y">>}
          [] k = 3 -> {<<"b","u","g">>, <<"h","a","r","d","e","r">>}
          [] k = 9 -> {<<"M","e","d","i","u","m">>, <<"e","a","s","y">>}]

(***************************************************************************)
(* Inbound payloads. A raw body is identified by its index in RawBodies;   *)
(* the entry is what request.json yields for these bytes.                  *)
(***************************************************************************)
Users == {"alice", "bob"}

Text(s) == [kind |-> "text", text |-> s]
NullBody == [kind |-> "null", text |-> <<>>]
NoPR == [present |-> FALSE, merged |-> Missing, login |-> Missing,
         rest |-> FALSE, body |-> NullBody]
\* a pull_request object with merged, user.login, number, title, html_url, body
PR(merged, login, body) ==
    [present |-> TRUE, merged |-> merged, login |-> login,
     rest |-> TRUE, body |-> body]
Obj(action, pr) == [kind |-> "object", action |-> action, pr |-> pr]

RawBodies ==
    << [kind |-> "invalid", action |-> Missing, pr |-> NoPR],   \* not JSON
       [kind |-> "array", action |-> Missing, pr |-> NoPR],     \* JSON, not an object
       Obj(Missing, NoPR),
       Obj("opened", NoPR),
       Obj("opened", PR("false", "alice", Text(<<"F","i","x","e","s"," ","#","1">>))),
       Obj("closed", NoPR),
       Obj("closed", PR("false", "alice", Text(<<"F","i","x","e","s"," ","#","1">>))),
       Obj("closed", PR(Missing, "alice", Text(<<"F","i","x","e","s"," ","#","1">>))),
       Obj("closed", [PR("true", "alice", Text(<<"F","i","x","e","s"," ","#","1">>)) EXCEPT !.login = Missing]),
       Obj("closed", [PR("true", "alice", Text(<<"R","e","l","a","t","e","s"," ","t","o"," ","#","7">>)) EXCEPT !.rest = FALSE]),
       Obj("closed", PR("true", "alice", Text(<<"F","i","x","e","s"," ","#","1">>))),
       Obj("closed", PR("true", "alice", Text(<<"c","l","o","s","e","s"," ","#","2">>))),
       Obj("closed", PR("true", "alice", Text(<<"R","e","l","a","t","e","s"," ","t","o"," ","#","7">>))),
       Obj("closed", PR("true", "alice", NullBody)),
       Obj("closed", PR("true", "alice", Text(<<"f","i","x","e","s"," "," ","#","1">>))),
       Obj("closed", PR("true", "alice", Text(<<"F","i","x","e","s","#","1">>))),
       Obj("closed", PR("true", "alice", Text(<<"F","i","x","e","s"," ","#">>))),
       Obj("closed", PR("true", "alice", Text(<<"F","I","X","E","D","\t","#","3">>))),
       Obj("closed", PR("true", "alice", Text(<<"r","e","s","o","l","v","e","s"," ","#","1","2">>))),
       Obj("closed", PR("true", "alice", Text(<<"F","i","x","e","s"," ","#","1"," ","a","n","d"," ","c","l","o","s","e","s"," ","#","2">>))),
       Obj("closed", PR("true", "bob", Text(<<"e","n","c","l","o","s","e"," ","#","2">>))),
       Obj("closed", PR("true", "bob", Text(<<"f","i","x"," ","#","9">>))),
       Obj("closed", PR("true", "bob", Text(<<"C","L","O","S","E","S"," ","#","2",","," ","f","i","x","e","s"," ","#","1">>))) >>

RawIds == 1..Len(RawBodies)

(***************************************************************************)
(* HMAC-SHA256 over the raw body, as a keyed digest that is injective on   *)
(* the keys and bodies of the model.                                       *)
(***************************************************************************)
GITHUB_SECRET == 7

Hmac(key, raw) == (key * 31 + raw * 17) % 251

\* X-Hub-Signature-256 headers: a prefix and the text after it, which is
\* the hexadecimal digest hex; ascii tells whether every character of the
\* header is an ASCII character
NoHeader == [kind |-> "absent", prefix |-> "", hex |-> 0, ascii |-> TRUE]
Header(prefix, hex) ==
    [kind |-> "present", prefix |-> prefix, hex |-> hex, ascii |-> TRUE]
\* the header with a character outside ASCII after the digest (Flask hands
\* header bytes above 127 on as the characters of those codes)
NonAscii(prefix, hex) == [Header(prefix, hex) EXCEPT !.ascii = FALSE]

\* what a sender holding the secret sends
Signed(raw) == [sig |-> Header("sha256=", Hmac(GITHUB_SECRET, raw)), raw |-> raw]

\* requests with a header that is absent, has another prefix, is computed
\* with another key, belongs to another body, or has a character outside
\* ASCII after the digest
Forged ==
    {[sig |-> h, raw |-> raw] :
        h \in {NoHeader,
               Header("sha1=", Hmac(GITHUB_SECRET, 11)),
               Header("sha256=", Hmac(GITHUB_SECRET + 4, 11)),
               Header("sha256=", Hmac(GITHUB_SECRET, 12)),
               NonAscii("sha256=", Hmac(GITHUB_SECRET, 11))},
        raw \in {11}}

Requests == {Signed(raw) : raw \in RawIds} \cup Forged

(***************************************************************************)
(* State.                                                                  *)
(***************************************************************************)
VARIABLES
    scores,      \* the rows of table scores as the shared connection sees them
    committed,   \* the rows of table scores in scores.db (after the last commit)
    curRows,     \* the shared cursor cur: rows of its last statement not yet fetched
    pc,          \* position of each request thread in github_webhook
    req,         \* the request each thread is handling
    loc,         \* local variables of github_webhook and its callees
    status,      \* HTTP status each thread answered with, 0 while unanswered
    note,        \* what each handling has done so far (history, not program state)
    tasks,       \* announcements handed to bot.loop.create_task, not yet run
    lbpc,        \* position of the chat loop in show_leaderboard
    lbOut,       \* what the last !leaderboard command sent to the channel
    delivered,   \* number of webhook deliveries received
    queries,     \* number of !leaderboard commands issued
    expected,    \* per contributor, the points at start plus every delta passed
                 \* to update_score (history, not program state)
    ledger0,     \* the rows scores.db held at start (history)
    overlap,     \* some update_score call ran while another statement sequence
                 \* on the cursor was in progress (history)
    scored,      \* per raw body, how many of its deliveries committed a score
                 \* (history)
    polLabels,   \* label names given to the label policy
    polPoints,   \* points the label policy returned for polLabels, -1 before
    acc,         \* update_score run alone: the ledger and arguments given to
                 \* it, and the ledgers it returned
    top          \* the leaderboard query run alone: the ledger given to it,
                 \* and the rows it returned

vars == <<scores, committed, curRows, pc, req, loc, status, note, tasks,
          lbpc, lbOut, delivered, queries, expected, ledger0, overlap, scored,
          polLabels, polPoints, acc, top>>

db == <<scores, committed, curRows>>
chat == <<tasks, lbpc, lbOut, queries>>
\* the variables of the specifications of single functions
policy == <<polLabels, polPoints, acc, top>>
hist == <<expected, ledger0, overlap, scored>>

\* thread t is inside update_score
InUpdateScore(t) == pc[t] \in {"select", "fetchone", "write", "commit"}

NoRequest == [sig |-> NoHeader, raw |-> 0]
\* username, pr_body, issue_number, points, result before they are assigned;
\* result is <<>> for None and the fetched row otherwise
NoLocals == [username |-> None, body |-> <<>>, issue |-> -1, points |-> -1,
             result |-> <<>>]
\* parsed: request.json was evaluated; calls: requests.get calls made;
\* outcome: how the call ended; exc: the exception that ended the handler;
\* wrote: update_score ran its UPDATE or INSERT; changed: that statement
\* changed a row of the table; saved: update_score ran its commit
FreshNote == [parsed |-> FALSE, calls |-> 0, outcome |-> None, exc |-> None,
              wrote |-> FALSE, changed |-> FALSE, saved |-> FALSE]

\* no ledger and no arguments given to update_score run alone; phase counts
\* the calls made on each path
NoAcc == [ledger |-> {}, id |-> None, a |-> 0, b |-> 0, phase |-> 0,
          ab |-> {}, ba |-> {}, sum |-> {}]
\* no ledger given to the leaderboard query run alone
NoTop == [ledger |-> {}, phase |-> 0, result |-> <<>>]

\* points of a contributor in a set of rows, 0 when there is no row
PointsOf(rows, u) ==
    IF \E r \in rows : r.github_username = u
    THEN (CHOOSE r \in rows : r.github_username = u).points
    ELSE 0

\* contents scores.db may have when the process starts (lines 29-37 keep them)
StartLedgers == {{}, {[github_username |-> "alice", points |-> 5]}}

(***************************************************************************)
(* Lines 29-37: the connection, the cursor and the table, and no request   *)
(* in progress.                                                            *)
(***************************************************************************)
Start ==
    /\ scores \in StartLedgers
    /\ committed = scores
    /\ curRows = <<>>
    /\ pc = [t \in Threads |-> "idle"]
    /\ req = [t \in Threads |-> NoRequest]
    /\ loc = [t \in Threads |-> NoLocals]
    /\ status = [t \in Threads |-> 0]
    /\ note = [t \in Threads |-> FreshNote]
    /\ tasks = <<>>
    /\ lbpc = "idle"
    /\ lbOut = [kind |-> None, rows |-> <<>>]
    /\ delivered = 0
    /\ queries = 0
    /\ expected = [u \in Users |-> PointsOf(scores, u)]
    /\ ledger0 = scores
    /\ overlap = FALSE
    /\ scored = [raw \in RawIds |-> 0]

Init ==
    /\ Start
    /\ polLabels = {}
    /\ polPoints = -1
    /\ acc = NoAcc
    /\ top = NoTop

(***************************************************************************)
(* Helpers of the handler actions.                                         *)
(***************************************************************************)
\* the handler returns or aborts with HTTP status st
Respond(t, st) ==
    /\ pc' = [pc EXCEPT ![t] = "done"]
    /\ status' = [status EXCEPT ![t] = st]

\* an uncaught exception: Flask answers 500
Raise(t, e) ==
    /\ Respond(t, 500)
    /\ note' = [note EXCEPT ![t].exc = e]

Goto(t, l) == pc' = [pc EXCEPT ![t] = l]

(***************************************************************************)
(* Lines 115-121: the status the signature check ends the request with, 0  *)
(* when the request passes. hmac.compare_digest compares two str values    *)
(* only if both are ASCII and raises TypeError otherwise, which nothing    *)
(* catches: Flask answers 500.                                             *)
(***************************************************************************)
\* SignatureCheck without the comparison of line 120, as a test of the
\* properties
SignatureCheckPrefixOnly(sig, raw) ==
    IF sig.kind = "absent" \/ sig.prefix # "sha256=" THEN 400 ELSE 0

SignatureCheck(sig, raw) ==
    IF sig.kind = "absent" \/ sig.prefix # "sha256=" THEN 400
    ELSE IF ~sig.ascii THEN 500
    ELSE IF Header("sha256=", Hmac(GITHUB_SECRET, raw)) # sig THEN 403
    ELSE 0

(***************************************************************************)
(* Lines 125-131 and 160: the test on action and merged, and the fields    *)
(* read from the pull request. "ok" goes on to the search, "skip" answers  *)
(* 204, anything else is the exception raised.                             *)
(***************************************************************************)
\* DispatchResult without the test of merged, as a test of the properties
DispatchIgnoresMerged(data) ==
    IF data.kind # "object" THEN "AttributeError"
    ELSE IF data.action # "closed" THEN "skip"
    ELSE IF ~data.pr.present \/ data.pr.merged = Missing THEN "KeyError"
    ELSE IF data.pr.login = Missing \/ ~data.pr.rest THEN "KeyError"
    ELSE "ok"

DispatchResult(data) ==
    IF data.kind # "object" THEN "AttributeError"
    ELSE IF data.action # "closed" THEN "skip"
    ELSE IF ~data.pr.present \/ data.pr.merged = Missing THEN "KeyError"
    ELSE IF data.pr.merged # "true" THEN "skip"
    ELSE IF data.pr.login = Missing \/ ~data.pr.rest THEN "KeyError"
    ELSE "ok"

(***************************************************************************)
(* Lines 115-144 and 65-66: github_webhook from its entry to the point     *)
(* where it answers or has sent the GET request for the issue. These lines *)
(* touch nothing but the request and local variables.                      *)
(***************************************************************************)
Ingest(r) ==
    LET st == SignatureCheck(r.sig, r.raw)
        data == RawBodies[r.raw]                 \* line 124, request.json
        parsed == [FreshNote EXCEPT !.parsed = TRUE]
        d == DispatchResult(data)
        locals == [NoLocals EXCEPT !.username = data.pr.login,
                                   !.body = data.pr.body.text]   \* pr.get('body') or ""
        m == ReSearch(locals.body)
    IN  IF st # 0
        THEN [pc |-> "done", status |-> st, loc |-> NoLocals,
              note |-> IF st = 500 THEN [FreshNote EXCEPT !.exc = "TypeError"]
                       ELSE FreshNote]
        ELSE IF data.kind = "invalid"
        THEN [pc |-> "done", status |-> 400, loc |-> NoLocals,
              note |-> [parsed EXCEPT !.exc = "BadRequest"]]
        ELSE IF d = "skip"
        THEN [pc |-> "done", status |-> 204, loc |-> NoLocals, note |-> parsed]
        ELSE IF d # "ok"
        THEN [pc |-> "done", status |-> 500, loc |-> NoLocals,
              note |-> [parsed EXCEPT !.exc = d]]
        ELSE IF ~m.found
        THEN [pc |-> "done", status |-> 204, loc |-> locals, note |-> parsed]
        ELSE [pc |-> "fetch", status |-> 0,
              loc |-> [locals EXCEPT !.issue = ParseInt(m.group1)],
              note |-> [parsed EXCEPT !.calls = 1]]

\* every request of the model with what Ingest yields for it
Ingested == {[request |-> r, outcome |-> Ingest(r)] : r \in Requests}

(***************************************************************************)
(* A webhook delivery arrives and a request thread runs github_webhook up  *)
(* to its answer or to the GET request.                                    *)
(***************************************************************************)
Receive(t) ==
    /\ pc[t] \in {"idle", "done"}
    /\ delivered < MaxDeliveries
    /\ \E d \in Ingested :
          LET o == d.outcome
          IN  /\ req' = [req EXCEPT ![t] = d.request]
              /\ pc' = [pc EXCEPT ![t] = o.pc]
              /\ status' = [status EXCEPT ![t] = o.status]
              /\ loc' = [loc EXCEPT ![t] = o.loc]
              /\ note' = [note EXCEPT ![t] = o.note]
    /\ delivered' = delivered + 1
    /\ UNCHANGED <<db, chat, hist, policy>>

(***************************************************************************)
(* Lines 66-85 and 146: how the GET request ends, and what the handler     *)
(* does with the points. requests.get is called without a timeout, so the  *)
(* thread waits at "fetch" until one of these actions happens.             *)
(***************************************************************************)
\* Decide without the test of line 146, as a test of the properties
DecideAlways(t, points, outcome) ==
    /\ loc' = [loc EXCEPT ![t].points = points]
    /\ note' = [note EXCEPT ![t].outcome = outcome]
    /\ Goto(t, "select")
    /\ expected' = [expected EXCEPT ![loc[t].username] = @ + points]
    /\ overlap' = (\/ overlap
                   \/ lbpc = "fetchall"
                   \/ \E s \in Threads \ {t} : InUpdateScore(s))
    /\ UNCHANGED <<status, ledger0, scored>>

\* line 146, with the points get_points_from_pr_labels returned
Decide(t, points, outcome) ==
    /\ loc' = [loc EXCEPT ![t].points = points]
    /\ note' = [note EXCEPT ![t].outcome = outcome]
    /\ IF points > 0
       THEN /\ Goto(t, "select")
            /\ expected' = [expected EXCEPT ![loc[t].username] = @ + points]
            /\ overlap' = (\/ overlap
                           \/ lbpc = "fetchall"
                           \/ \E s \in Threads \ {t} : InUpdateScore(s))
            /\ UNCHANGED status
       ELSE /\ Respond(t, 204)
            /\ UNCHANGED <<expected, overlap>>
    /\ UNCHANGED <<ledger0, scored>>

\* the service answers: 200 with the issue's labels, or 404
GitHubAnswers(t) ==
    /\ pc[t] = "fetch"
    /\ IF loc[t].issue \in DOMAIN IssueStore
       THEN Decide(t, PointsFor(IssueStore[loc[t].issue]), "200")
       ELSE Decide(t, 0, "non200")
    /\ UNCHANGED <<db, chat, req, delivered, policy>>

\* the service answers with another status (rate limit, server error)
GitHubRefuses(t) ==
    /\ pc[t] = "fetch"
    /\ Decide(t, 0, "non200")
    /\ UNCHANGED <<db, chat, req, delivered, policy>>

\* the connection fails: requests.get raises, nothing catches it
NetworkFails(t) ==
    /\ pc[t] = "fetch"
    /\ Respond(t, 500)
    /\ note' = [note EXCEPT ![t].outcome = "neterror", ![t].exc = "ConnectionError"]
    /\ UNCHANGED <<db, chat, req, loc, delivered, hist, policy>>

(***************************************************************************)
(* update_score, lines 51-58, one action per statement on the shared       *)
(* cursor and connection.                                                  *)
(***************************************************************************)
RECURSIVE SetToSeq(_)
SetToSeq(S) ==
    IF S = {} THEN <<>>
    ELSE LET x == CHOOSE y \in S : TRUE IN <<x>> \o SetToSeq(S \ {x})

\* SELECT points FROM scores WHERE github_username = ?
SelectPoints(rows, username) ==
    SetToSeq({<<r.points>> : r \in {q \in rows : q.github_username = username}})

\* line 51
Select(t) ==
    /\ pc[t] = "select"
    /\ curRows' = SelectPoints(scores, loc[t].username)
    /\ Goto(t, "fetchone")
    /\ UNCHANGED <<scores, committed, chat, req, loc, status, note, delivered,
                   hist, policy>>

\* line 52: cur.fetchone() takes the next row of whatever the cursor holds
FetchOne(t) ==
    /\ pc[t] = "fetchone"
    /\ IF curRows = <<>>
       THEN /\ loc' = [loc EXCEPT ![t].result = <<>>]
            /\ UNCHANGED curRows
       ELSE /\ loc' = [loc EXCEPT ![t].result = Head(curRows)]
            /\ curRows' = Tail(curRows)
    /\ Goto(t, "write")
    /\ UNCHANGED <<scores, committed, chat, req, status, note, delivered,
                   hist, policy>>

\* UpdateRows with the WHERE clause inverted, as a test of the properties
UpdateRowsOthers(rows, username, points) ==
    {IF r.github_username # username THEN [r EXCEPT !.points = points] ELSE r :
        r \in rows}

\* UPDATE scores SET points = ? WHERE github_username = ?
UpdateRows(rows, username, points) ==
    {IF r.github_username = username THEN [r EXCEPT !.points = points] ELSE r :
        r \in rows}

\* InsertRow with a new row that starts at 0 points, as a test of the
\* properties
InsertRowZero(rows, username, points) ==
    rows \cup {[github_username |-> username, points |-> 0]}

\* INSERT INTO scores (github_username, points) VALUES (?, ?)
InsertRow(rows, username, points) ==
    rows \cup {[github_username |-> username, points |-> points]}

\* lines 53-57; a row of two columns has the user name in result[0], and
\* the primary key rejects a second row for a user name
Write(t) ==
    /\ pc[t] = "write"
    /\ LET u == loc[t].username
           p == loc[t].points
           result == loc[t].result
       IN  IF result # <<>>
           THEN IF Len(result) # 1
                THEN /\ Raise(t, "TypeError")
                     /\ UNCHANGED <<scores, curRows>>
                ELSE /\ scores' = UpdateRows(scores, u, result[1] + p)
                     /\ curRows' = <<>>
                     /\ Goto(t, "commit")
                     /\ note' = [note EXCEPT ![t].wrote = TRUE,
                                             ![t].changed = (scores' # scores)]
                     /\ UNCHANGED status
           ELSE IF \E r \in scores : r.github_username = u
                THEN /\ Raise(t, "IntegrityError")
                     /\ curRows' = <<>>
                     /\ UNCHANGED scores
                ELSE /\ scores' = InsertRow(scores, u, p)
                     /\ curRows' = <<>>
                     /\ Goto(t, "commit")
                     /\ note' = [note EXCEPT ![t].wrote = TRUE,
                                             ![t].changed = (scores' # scores)]
                     /\ UNCHANGED status
    /\ UNCHANGED <<committed, chat, req, loc, delivered, hist, policy>>

\* line 58
Commit(t) ==
    /\ pc[t] = "commit"
    /\ committed' = scores
    /\ Goto(t, "announce")
    /\ scored' = [scored EXCEPT ![req[t].raw] = @ + 1]
    /\ note' = [note EXCEPT ![t].saved = TRUE]
    /\ UNCHANGED <<scores, curRows, chat, req, loc, status, delivered,
                   expected, ledger0, overlap, policy>>

(***************************************************************************)
(* Lines 149-160: the announcement is handed to the chat loop when the     *)
(* channel is in the bot's cache, and the handler answers 204.             *)
(***************************************************************************)
\* Announce without the test of line 150, as a test of the properties: with
\* no channel, None.send raises AttributeError
AnnounceNoCheck(t) ==
    /\ pc[t] = "announce"
    /\ \E channel \in BOOLEAN :
          IF channel
          THEN /\ tasks' = Append(tasks, [username |-> loc[t].username,
                                          points |-> loc[t].points,
                                          raw |-> req[t].raw])
               /\ Respond(t, 204)
               /\ UNCHANGED note
          ELSE /\ Raise(t, "AttributeError")
               /\ UNCHANGED tasks
    /\ UNCHANGED <<db, lbpc, lbOut, queries, req, loc, delivered, hist, policy>>

Announce(t) ==
    /\ pc[t] = "announce"
    /\ \E channel \in BOOLEAN :
          tasks' = IF channel
                   THEN Append(tasks, [username |-> loc[t].username,
                                       points |-> loc[t].points,
                                       raw |-> req[t].raw])
                   ELSE tasks
    /\ Respond(t, 204)
    /\ UNCHANGED <<db, lbpc, lbOut, queries, req, loc, note, delivered,
                   hist, policy>>

(***************************************************************************)
(* The chat loop: it runs the scheduled sends, and the !leaderboard        *)
(* command, lines 89-104.                                                  *)
(***************************************************************************)
\* channel.send(embed=embed) runs; whether it succeeds goes nowhere
RunTask ==
    /\ tasks # <<>>
    /\ tasks' = Tail(tasks)
    /\ UNCHANGED <<db, lbpc, lbOut, queries, pc, req, loc, status, note,
                   delivered, hist, policy>>

\* LIMIT 10 of line 91
LeaderboardLimit == 10

RECURSIVE TopN(_, _)
\* TopN as a query without ORDER BY and with LIMIT 1, as a test of the
\* properties
TopNAnyRow(rows, n) ==
    IF n = 0 \/ rows = {} THEN {<<>>}
    ELSE {<< <<r.github_username, r.points>> >> : r \in rows}

\* the results SELECT github_username, points ... ORDER BY points DESC LIMIT n
\* may give: a row of the highest points first, then the results for the
\* other rows and n - 1; rows of equal points come in any order
TopN(rows, n) ==
    IF n = 0 \/ rows = {} THEN {<<>>}
    ELSE UNION {{<< <<r.github_username, r.points>> >> \o rest :
                    rest \in TopN(rows \ {r}, n - 1)} :
                  r \in {q \in rows : \A x \in rows : q.points >= x.points}}

\* line 91
LbExecute ==
    /\ lbpc = "idle"
    /\ queries < MaxQueries
    /\ \E rs \in TopN(scores, LeaderboardLimit) : curRows' = rs
    /\ lbpc' = "fetchall"
    /\ queries' = queries + 1
    /\ overlap' = (overlap \/ \E t \in Threads : InUpdateScore(t))
    /\ UNCHANGED <<scores, committed, tasks, lbOut, pc, req, loc, status,
                   note, delivered, expected, ledger0, scored, policy>>

\* lines 92-104: fetchall takes what the cursor holds; the loop over the
\* results unpacks each row into two names
LbFetchAll ==
    /\ lbpc = "fetchall"
    /\ curRows' = <<>>
    /\ lbOut' = IF curRows = <<>> THEN [kind |-> "empty", rows |-> <<>>]
                ELSE IF \E i \in 1..Len(curRows) : Len(curRows[i]) # 2
                THEN [kind |-> "ValueError", rows |-> <<>>]
                ELSE [kind |-> "embed", rows |-> curRows]
    /\ lbpc' = "idle"
    /\ UNCHANGED <<scores, committed, tasks, queries, pc, req, loc, status,
                   note, delivered, hist, policy>>

(***************************************************************************)
(* The specification.                                                      *)
(***************************************************************************)
Handler(t) ==
    \/ Receive(t) \/ Select(t) \/ FetchOne(t) \/ Write(t) \/ Commit(t)
    \/ Announce(t)

GitHub(t) == GitHubAnswers(t) \/ GitHubRefuses(t) \/ NetworkFails(t)

Next ==
    \/ \E t \in Threads : Handler(t)
    \/ \E t \in Threads : GitHub(t)
    \/ RunTask
    \/ LbExecute
    \/ LbFetchAll

Spec == Init /\ [][Next]_vars

(***************************************************************************)
(* The same program with the scheduling its threads have: a request thread *)
(* that can run its next statement eventually runs it, and the chat loop   *)
(* eventually runs what it has started. Nothing makes a delivery or a      *)
(* command arrive, and nothing makes the code-hosting service answer.      *)
(***************************************************************************)
Step(t) == Select(t) \/ FetchOne(t) \/ Write(t) \/ Commit(t) \/ Announce(t)

FairSpec ==
    /\ Spec
    /\ \A t \in Threads : WF_vars(Step(t))
    /\ WF_vars(RunTask)
    /\ WF_vars(LbFetchAll)

(***************************************************************************)
(* The label policy alone, lines 77-85, applied to every set of label      *)
(* names over LabelNames.                                                  *)
(***************************************************************************)
LabelNames ==
    {<<"h","a","r","d">>, <<"H","a","r","d">>, <<"m","e","d","i","u","m">>,
     <<"M","E","D","I","U","M">>, <<"e","a","s","y">>, <<"E","a","s","Y">>,
     <<"b","u","g">>, <<"h","a","r","d","e","r">>}

PolicyInit ==
    /\ Start
    /\ polLabels \in SUBSET LabelNames
    /\ polPoints = -1
    /\ acc = NoAcc
    /\ top = NoTop

ApplyPolicy ==
    /\ polPoints = -1
    /\ polPoints' = PointsFor(polLabels)
    /\ UNCHANGED <<db, chat, pc, req, loc, status, note, delivered, hist,
                   polLabels, acc, top>>

PolicyNext == ApplyPolicy

PolicySpec == PolicyInit /\ [][PolicyNext]_vars

(***************************************************************************)
(* update_score alone, lines 49-58: the statements of one call run with no *)
(* other statement on the cursor in between. From every ledger over Users  *)
(* with points up to MaxStored, and deltas a and b up to MaxDelta, one     *)
(* path calls it with a then b, one with b then a, one with a + b.         *)
(***************************************************************************)
UpdateScore(rows, username, points) ==
    LET cursor == SelectPoints(rows, username)                     \* line 51
        result == IF cursor = <<>> THEN <<>> ELSE Head(cursor)     \* line 52
    IN  IF result # <<>>
        THEN UpdateRows(rows, username, result[1] + points)        \* line 54
        ELSE InsertRow(rows, username, points)                     \* line 57

\* the ledgers with at most one row per user name (the primary key)
AccLedgers ==
    {{[github_username |-> u, points |-> f[u]] : u \in {v \in Users : f[v] >= 0}} :
        f \in [Users -> -1..MaxStored]}

AccInit ==
    /\ Start
    /\ polLabels = {}
    /\ polPoints = -1
    /\ top = NoTop
    /\ \E l \in AccLedgers, u \in Users, a, b \in 1..MaxDelta :
          acc = [NoAcc EXCEPT !.ledger = l, !.id = u, !.a = a, !.b = b]

\* the first call of each path
AccFirst ==
    /\ acc.phase = 0
    /\ acc' = [acc EXCEPT !.phase = 1,
                          !.ab = UpdateScore(acc.ledger, acc.id, acc.a),
                          !.ba = UpdateScore(acc.ledger, acc.id, acc.b),
                          !.sum = UpdateScore(acc.ledger, acc.id, acc.a + acc.b)]
    /\ UNCHANGED <<db, chat, pc, req, loc, status, note, delivered, hist,
                   polLabels, polPoints, top>>

\* the second call of the paths that make two
AccSecond ==
    /\ acc.phase = 1
    /\ acc' = [acc EXCEPT !.phase = 2,
                          !.ab = UpdateScore(acc.ab, acc.id, acc.b),
                          !.ba = UpdateScore(acc.ba, acc.id, acc.a)]
    /\ UNCHANGED <<db, chat, pc, req, loc, status, note, delivered, hist,
                   polLabels, polPoints, top>>

AccNext == AccFirst \/ AccSecond

AccSpec == AccInit /\ [][AccNext]_vars

(***************************************************************************)
(* The leaderboard query alone, lines 91-92: execute and fetchall with no  *)
(* other statement on the cursor in between, on ledgers of up to MaxRows   *)
(* rows, more than the limit.                                              *)
(***************************************************************************)
TopNames ==
    <<"alice", "bob", "carol", "dave", "erin", "frank", "grace", "heidi",
      "ivan", "judy", "kim", "leo", "mallory", "nina", "oscar", "peggy">>

\* k rows; the points go up in steps of 5 * m and start again at 0, so some
\* rows have equal points
TopLedger(k, m) ==
    {[github_username |-> TopNames[i], points |-> ((i * m) % 7) * 5] : i \in 1..k}

TopInit ==
    /\ Start
    /\ polLabels = {}
    /\ polPoints = -1
    /\ acc = NoAcc
    /\ \E k \in 0..MaxRows, m \in 1..MaxStride :
          top = [NoTop EXCEPT !.ledger = TopLedger(k, m)]

\* lines 91-92: results = cur.fetchall() after the SELECT
TopQuery ==
    /\ top.phase = 0
    /\ \E rs \in TopN(top.ledger, LeaderboardLimit) :
          top' = [top EXCEPT !.phase = 1, !.result = rs]
    /\ UNCHANGED <<db, chat, pc, req, loc, status, note, delivered, hist,
                   polLabels, polPoints, acc>>

TopNext == TopQuery

TopSpec == TopInit /\ [][TopNext]_vars


(***************************************************************************)
(* Vocabulary of the properties. These are stated on the requests and on   *)
(* the history, not through the operators of the handler.                  *)
(***************************************************************************)
\* thread t has received a request
Active(t) == pc[t] # "idle"

\* the header is 'sha256=' followed by the digest of the raw body
Authentic(r) ==
    /\ r.sig.kind = "present"
    /\ r.sig.prefix = "sha256="
    /\ r.sig.ascii
    /\ r.sig.hex = Hmac(GITHUB_SECRET, r.raw)

\* no update_score call is in progress
Quiescent == \A t \in Threads : ~InUpdateScore(t)

\* the step handles a request of thread t: it receives it or moves on in it
Handles(t) == pc'[t] # pc[t] \/ req'[t] # req[t] \/ note'[t] # note[t]

\* C1: once all concurrent update_score calls for one contributor have
\* finished (no leaderboard query, no call for anybody else), the stored
\* points are the points at start plus the sum of all the deltas.
C1_NoLostUpdate ==
    \A u \in Users :
        ( /\ Quiescent
          /\ queries = 0
          /\ \A v \in Users \ {u} : expected[v] = PointsOf(ledger0, v) )
        => PointsOf(scores, u) = expected[u]

\* C2: a request that fails authentication is answered with an error status
\* (400 or 403; 500 when the comparison itself fails) without the payload
\* being parsed, the resolver called or the table written, and the step that
\* handles it changes neither the ledger nor the announcements.
C2_RejectedDoesNothing ==
    /\ [](\A t \in Threads :
            (Active(t) /\ ~Authentic(req[t])) =>
                /\ pc[t] = "done"
                /\ status[t] \in {400, 403, 500}
                /\ ~note[t].parsed
                /\ note[t].calls = 0
                /\ ~note[t].wrote)
    /\ [][\A t \in Threads :
            (Handles(t) /\ ~Authentic(req'[t])) =>
                /\ scores' = scores
                /\ committed' = committed
                /\ tasks' = tasks]_vars

\* a forged request was rejected with 403 while the ledger holds points
C2_Witness ==
    \E t \in Threads :
        /\ pc[t] = "done"
        /\ ~Authentic(req[t])
        /\ status[t] = 403
        /\ scores # {}

\* C3: every request that passes signature verification is answered 204.
C3_AuthenticatedGets204 ==
    \A t \in Threads :
        (pc[t] = "done" /\ Authentic(req[t])) => status[t] = 204

\* C4: when the resolver's call returns a non-200 status or fails at the
\* network level, the points are 0 as a value, no exception ends the
\* handler, and update_score is not called.
C4_ResolverFailureIsZeroPoints ==
    \A t \in Threads :
        (Active(t) /\ note[t].outcome \in {"non200", "neterror"}) =>
            /\ loc[t].points = 0
            /\ note[t].exc = None
            /\ ~note[t].wrote
            /\ pc[t] = "done" /\ status[t] = 204

\* C5: every authenticated request eventually receives its response, even
\* if the code-hosting service never answers the label fetch.
C5_EventuallyAnswered ==
    \A t \in Threads :
        (Active(t) /\ Authentic(req[t])) ~> (pc[t] = "done")

\* C6 as stated: a delivery of an event that an earlier delivery has
\* already scored leaves the ledger as it is (deliveries handled one after
\* the other).
C6_Idempotent ==
    [][\A t \in Threads :
          ( /\ pc[t] = "write"
            /\ pc'[t] = "commit"
            /\ ~overlap
            /\ scored[req[t].raw] >= 1 )
          => scores' = scores]_vars

\* C6 as amended: every delivery counts. When no update_score call ran
\* while another call or a leaderboard query was in progress, each
\* contributor's points are the points at start plus the delta of every
\* delivery that reached update_score, repeated deliveries included.
C6_EveryDeliveryAdds ==
    (~overlap /\ Quiescent) =>
        \A u \in Users : PointsOf(scores, u) = expected[u]

\* the same event was delivered and scored twice, one delivery after the
\* other, and the author has twice its points more than at start
C6_Witness ==
    \E t \in Threads :
        /\ pc[t] = "done"
        /\ scored[req[t].raw] = 2
        /\ ~overlap
        /\ Quiescent
        /\ loc[t].points > 0
        /\ PointsOf(scores, loc[t].username)
              = PointsOf(ledger0, loc[t].username) + 2 * loc[t].points

\* C7: at most one record per contributor, no record is ever deleted, and
\* a contributor's points never decrease from one state to the next.
C7_LedgerInvariant ==
    /\ [](\A r1, r2 \in scores :
            r1.github_username = r2.github_username => r1 = r2)
    /\ [][\A r \in scores :
            \E r2 \in scores' :
                /\ r2.github_username = r.github_username
                /\ r2.points >= r.points]_vars

\* raw bodies that are events other than a closed and merged pull request
NotMergedClose ==
    {raw \in RawIds :
        LET data == RawBodies[raw]
        IN  /\ data.kind = "object"
            /\ \/ data.action # "closed"
               \/ data.pr.present /\ data.pr.merged = "false"}

\* C8: an authenticated event goes on to scoring only if action is closed
\* and merged is true; any other event is answered 204 without the resolver
\* being called, the ledger written or an announcement scheduled.
C8_OnlyMergedCloseScores ==
    /\ [](\A t \in Threads :
            (Active(t) /\ Authentic(req[t]) /\ req[t].raw \in NotMergedClose) =>
                /\ pc[t] = "done"
                /\ status[t] = 204
                /\ note[t].calls = 0
                /\ ~note[t].wrote)
    /\ [](\A t \in Threads :
            (Active(t) /\ (note[t].calls > 0 \/ pc[t] # "done")) =>
                /\ RawBodies[req[t].raw].action = "closed"
                /\ RawBodies[req[t].raw].pr.merged = "true")
    /\ [][\A t \in Threads :
            (Handles(t) /\ Authentic(req'[t]) /\ req'[t].raw \in NotMergedClose) =>
                /\ scores' = scores
                /\ committed' = committed
                /\ tasks' = tasks]_vars

\* a closed, unmerged pull request was answered 204
C8_Witness ==
    \E t \in Threads :
        /\ pc[t] = "done"
        /\ Authentic(req[t])
        /\ RawBodies[req[t].raw].action = "closed"
        /\ RawBodies[req[t].raw].pr.merged = "false"
        /\ status[t] = 204
        /\ note[t].calls = 0

\* the text holds a closing keyword, in any case, followed by one white
\* space character, '#' and a digit
HasClosingRef(s) ==
    \E k \in 1..Len(Keywords) :
        \E i \in 1..Len(s) :
            LET n == Len(Keywords[k])
            IN  /\ i + n + 2 <= Len(s)
                /\ Lower(SubSeq(s, i, i + n - 1)) = Keywords[k]
                /\ IsSpace(s[i + n])
                /\ s[i + n + 1] = "#"
                /\ IsDigit(s[i + n + 2])

\* raw bodies that are closed and merged pull requests, with the fields of
\* a merge event, whose body (empty when null) holds no closing reference
MergedWithoutRef ==
    {raw \in RawIds :
        LET data == RawBodies[raw]
        IN  /\ data.kind = "object"
            /\ data.action = "closed"
            /\ data.pr.present
            /\ data.pr.merged = "true"
            /\ data.pr.login # Missing
            /\ data.pr.rest
            /\ ~HasClosingRef(data.pr.body.text)}

\* C9: an authenticated closed and merged event whose body holds no closing
\* reference is answered 204 without the resolver ever being called, and
\* the ledger is unchanged.
C9_NoReferenceNoResolver ==
    /\ [](\A t \in Threads :
            (Active(t) /\ Authentic(req[t]) /\ req[t].raw \in MergedWithoutRef) =>
                /\ pc[t] = "done"
                /\ status[t] = 204
                /\ note[t].calls = 0
                /\ ~note[t].wrote)
    /\ [][\A t \in Threads :
            (Handles(t) /\ Authentic(req'[t]) /\ req'[t].raw \in MergedWithoutRef) =>
                /\ scores' = scores
                /\ committed' = committed]_vars

\* a merged pull request whose body has text but no closing reference was
\* answered 204
C9_Witness ==
    \E t \in Threads :
        /\ pc[t] = "done"
        /\ Authentic(req[t])
        /\ req[t].raw \in MergedWithoutRef
        /\ RawBodies[req[t].raw].pr.body.text # <<>>
        /\ status[t] = 204
        /\ note[t].calls = 0

\* two label names are the same up to the case of their letters
SameIgnoringCase(a, b) ==
    /\ Len(a) = Len(b)
    /\ \A i \in 1..Len(a) : LowerChar(a[i]) = LowerChar(b[i])

\* polLabels has the label w in some case
HasLabel(w) == \E l \in polLabels : SameIgnoringCase(l, w)

\* C10: the points are 20 with 'hard', else 10 with 'medium', else 5 with
\* 'easy', else 0, whatever the case of the names; never a sum.
C10_Precedence ==
    polPoints # -1 =>
        /\ polPoints \in {0, 5, 10, 20}
        /\ polPoints =
              IF HasLabel(<<"h","a","r","d">>) THEN 20
              ELSE IF HasLabel(<<"m","e","d","i","u","m">>) THEN 10
              ELSE IF HasLabel(<<"e","a","s","y">>) THEN 5
              ELSE 0

\* 'Hard' and 'easy' together gave 20
C10_Witness ==
    /\ polPoints = 20
    /\ {<<"H","a","r","d">>, <<"e","a","s","y">>} \subseteq polLabels

\* C11: the write of a scoring event with points p changes the ledger by
\* exactly this: the author's record goes from absent to p, or from q to
\* q + p, and the record of every other contributor stays as it is.
C11_ScoringFrame ==
    [][\A t \in Threads :
          (pc[t] = "write" /\ pc'[t] # "write") =>
              LET u == loc[t].username
                  p == loc[t].points
              IN  scores' = {r \in scores : r.github_username # u}
                               \cup {[github_username |-> u,
                                      points |-> PointsOf(scores, u) + p]}]_vars

\* C12: update_score(id, a) then update_score(id, b), run one after the
\* other from any ledger, leave the same ledger as update_score(id, a + b)
\* and as update_score(id, b) then update_score(id, a).
C12_Additive ==
    acc.phase = 2 => (acc.ab = acc.sum /\ acc.ba = acc.sum)

\* a contributor without a row, in a ledger that has a row of somebody else,
\* was given two different deltas: the first call inserted, the second
\* updated, and the points are the sum
C12_Witness ==
    /\ acc.phase = 2
    /\ acc.a # acc.b
    /\ acc.ledger # {}
    /\ \A r \in acc.ledger : r.github_username # acc.id
    /\ PointsOf(acc.ab, acc.id) = acc.a + acc.b
    /\ \A r \in acc.ledger : r \in acc.ab

C14_OnlyUpdateScoreWrites ==
    /\ [][(scores' # scores \/ committed' # committed) =>
            \E t \in Threads :
                /\ pc[t] \in {"write", "commit"}
                /\ pc'[t] # pc[t]
                /\ Authentic(req[t])
                /\ RawBodies[req[t].raw].action = "closed"
                /\ RawBodies[req[t].raw].pr.merged = "true"
                /\ note[t].outcome = "200"
                /\ loc[t].points > 0]_vars
    /\ [][( \/ lbpc' # lbpc
            \/ lbOut' # lbOut
            \/ tasks' # tasks
            \/ \E t \in Threads : Handles(t) /\ pc[t] \notin {"write", "commit"} )
          => (scores' = scores /\ committed' = committed)]_vars

\* update_score has changed a row and not yet committed, after a
\* leaderboard command and a rejected request
C14_Witness ==
    /\ \E t \in Threads : pc[t] = "commit" /\ scores # committed
    /\ \E t \in Threads : pc[t] = "done" /\ ~Authentic(req[t])
    /\ lbOut.kind # None

\* C15: whatever becomes of the announcement (no channel, a send that is
\* still pending, a send that ran), the handler answers 204 in the step
\* after the commit, which it can always take, and nothing that happens to
\* the announcements changes the ledger or an answer already given.
C15_SinkNeverAffectsOutcome ==
    /\ [](\A t \in Threads : pc[t] = "announce" => ENABLED Announce(t))
    /\ [][\A t \in Threads :
            (pc[t] = "announce" /\ pc'[t] # "announce") =>
                /\ pc'[t] = "done"
                /\ status'[t] = 204
                /\ note'[t].exc = None
                /\ scores' = scores
                /\ committed' = committed]_vars
    /\ [][tasks' # tasks =>
            /\ scores' = scores
            /\ committed' = committed
            /\ \A t \in Threads :
                  pc[t] = "done" => (pc'[t] = "done" /\ status'[t] = status[t])]_vars

\* a handler has answered 204 while the send of its announcement is still
\* pending, and another has answered 204 with no announcement pending (no
\* channel, or the send has run); the points of both are in scores.db
C15_Witness ==
    \E t, s \in Threads :
        /\ t # s
        /\ pc[t] = "done" /\ status[t] = 204 /\ note[t].wrote
        /\ pc[s] = "done" /\ status[s] = 204 /\ note[s].wrote
        /\ loc[t].username # loc[s].username
        /\ tasks = <<[username |-> loc[t].username, points |-> loc[t].points,
                      raw |-> req[t].raw]>>
        /\ PointsOf(committed, loc[t].username) >= loc[t].points
        /\ PointsOf(committed, loc[s].username) >= loc[s].points

\* C16: a request without the header, or with a header that does not start
\* with 'sha256=', is answered 400; one with the prefix and another digest
\* is answered 403; one whose header is 'sha256=' and the digest of its raw
\* body is accepted; and a request that differs from an accepted one in the
\* body alone or in the header alone is rejected.
C16_SignatureStatus ==
    /\ \A t \in Threads :
          Active(t) =>
              LET sig == req[t].sig
              IN  /\ (sig.kind = "absent" \/ sig.prefix # "sha256=") =>
                         (pc[t] = "done" /\ status[t] = 400 /\ ~note[t].parsed)
                  /\ (sig.kind = "present" /\ sig.prefix = "sha256="
                                           /\ ~Authentic(req[t])) =>
                         (pc[t] = "done" /\ status[t] = 403 /\ ~note[t].parsed)
                  /\ Authentic(req[t]) => note[t].parsed
    /\ \A t, s \in Threads :
          ( /\ Active(t) /\ Active(s)
            /\ note[t].parsed
            /\ \/ req[s].raw # req[t].raw /\ req[s].sig = req[t].sig
               \/ req[s].raw = req[t].raw /\ req[s].sig # req[t].sig )
          => (~note[s].parsed /\ status[s] \in {400, 403})

\* the step schedules the announcement of the request thread t is handling
Schedules(t) ==
    /\ pc[t] = "announce"
    /\ pc'[t] # "announce"
    /\ Len(tasks') = Len(tasks) + 1

\* C17: within one handling, an announcement is scheduled only with points
\* > 0 and after update_score has committed for that event; the resolver is
\* called at most once, and never after the ledger write; and no
\* announcement is scheduled for an event that did not change the ledger.
C17_HandlingOrder ==
    /\ [](\A t \in Threads :
            /\ note[t].calls <= 1
            /\ note[t].wrote => (note[t].calls = 1 /\ note[t].outcome # None))
    /\ [][\A t \in Threads :
            note'[t].calls > note[t].calls => ~note[t].wrote]_vars
    /\ [][Len(tasks') > Len(tasks) => \E t \in Threads : Schedules(t)]_vars
    /\ [][\A t \in Threads :
            Schedules(t) =>
                /\ loc[t].points > 0
                /\ note[t].saved
                /\ note[t].changed]_vars

\* at position i of the text: closing keyword k in any case, one white space
\* character, '#' and a digit
RefAt(s, i, k) ==
    LET n == Len(Keywords[k])
    IN  /\ i + n + 2 <= Len(s)
        /\ Lower(SubSeq(s, i, i + n - 1)) = Keywords[k]
        /\ IsSpace(s[i + n])
        /\ s[i + n + 1] = "#"
        /\ IsDigit(s[i + n + 2])

\* the positions of the text where a closing reference starts
RefStarts(s) == {i \in 1..Len(s) : \E k \in 1..Len(Keywords) : RefAt(s, i, k)}

\* the number written after '#' in the first closing reference of the text
FirstIssueOf(s) ==
    LET i == CHOOSE h \in RefStarts(s) : \A m \in RefStarts(s) : h <= m
        k == CHOOSE j \in 1..Len(Keywords) : RefAt(s, i, j)
        d == i + Len(Keywords[k]) + 2
    IN  ParseInt(SubSeq(s, d, DigitsEnd(s, d)))

\* raw bodies that are closed and merged pull requests, with the fields of
\* a merge event, whose body holds a closing reference
MergedWithRef ==
    {raw \in RawIds :
        LET data == RawBodies[raw]
        IN  /\ data.kind = "object"
            /\ data.action = "closed"
            /\ data.pr.present
            /\ data.pr.merged = "true"
            /\ data.pr.login # Missing
            /\ data.pr.rest
            /\ RefStarts(data.pr.body.text) # {}}

\* for each of them, the issue of the first reference and the points its
\* labels give (0 when the issue does not exist)
FirstIssue ==
    [raw \in MergedWithRef |->
        LET k == FirstIssueOf(RawBodies[raw].pr.body.text)
        IN  [issue |-> k,
             points |-> IF k \in DOMAIN IssueStore THEN PointsFor(IssueStore[k])
                        ELSE 0]]

\* those whose body holds more than one closing reference
SeveralRefs ==
    {raw \in MergedWithRef : Cardinality(RefStarts(RawBodies[raw].pr.body.text)) > 1}

\* C18: for a body with closing references, the resolver is called exactly
\* once, for the number of the first keyword-whitespace-'#digits' occurrence
\* in any case, and when it answers, the points are those of that issue's
\* labels.
C18_FirstMatchOnly ==
    \A t \in Threads :
        (Active(t) /\ Authentic(req[t]) /\ req[t].raw \in MergedWithRef) =>
            /\ note[t].calls = 1
            /\ loc[t].issue = FirstIssue[req[t].raw].issue
            /\ note[t].outcome = "200" =>
                  loc[t].points = FirstIssue[req[t].raw].points

\* 'CLOSES #2, fixes #1' was scored with the 5 points of issue 2 after one
\* call of the resolver, and 'Fixes #1 and closes #2' with the 20 of issue 1
C18_Witness ==
    \E t, s \in Threads :
        /\ pc[t] = "done" /\ pc[s] = "done"
        /\ {req[t].raw, req[s].raw} \subseteq SeveralRefs
        /\ note[t].calls = 1 /\ note[s].calls = 1
        /\ loc[t].issue = 2 /\ loc[t].points = 5 /\ note[t].wrote
        /\ loc[s].issue = 1 /\ loc[s].points = 20 /\ note[s].wrote

\* every delivery so far went to a request thread of its own, the calls of
\* update_score were for different contributors, and no leaderboard command
\* was issued
DifferentContributors ==
    /\ queries = 0
    /\ delivered = Cardinality({t \in Threads : Active(t)})
    /\ \A t, s \in Threads :
          (t # s /\ loc[t].points > 0 /\ loc[s].points > 0) =>
              loc[t].username # loc[s].username

\* C19: when update_score calls for different contributors interleave, each
\* call reads with fetchone its own contributor's points, and once the calls
\* have finished each contributor has the points at start plus the delta.
C19_NoInterference ==
    DifferentContributors =>
        /\ \A t \in Threads :
              pc[t] = "write" =>
                  loc[t].result =
                      IF \E r \in scores : r.github_username = loc[t].username
                      THEN <<PointsOf(scores, loc[t].username)>>
                      ELSE <<>>
        /\ Quiescent => \A u \in Users : PointsOf(scores, u) = expected[u]

\* the ledger with every delta passed to update_score added
ExpectedLedger ==
    {[github_username |-> u, points |-> expected[u]] :
        u \in {v \in Users :
                 expected[v] > 0 \/ \E r \in ledger0 : r.github_username = v}}

\* C20: with one delivery and a leaderboard command at the same time,
\* update_score adds exactly its delta to the contributor's points, and the
\* command shows the top 10 of the ledger as it was before or after that.
C20_QueryDuringUpdate ==
    delivered = 1 =>
        /\ Quiescent => \A u \in Users : PointsOf(scores, u) = expected[u]
        /\ lbOut.kind # None =>
              /\ lbOut.kind \in {"empty", "embed"}
              /\ lbOut.rows \in TopN(ledger0, LeaderboardLimit)
                                   \cup TopN(ExpectedLedger, LeaderboardLimit)

=============================================================================
